---------------------------- MODULE Spec2Model ----------------------------
(***************************************************************************)
(* Model of app.py (SIDRA dashboard): the remote queries with their        *)
(* regional -> national fallback, the per-session cache keyed by region,   *)
(* the normalisation of raw records (processar_dados), the aggregation of  *)
(* the not-married series and the last-year ratio annotation.              *)
(*                                                                         *)
(* Python strings are sequences of one-character strings, so that          *)
(* startswith, replace, float() and str() are computed and not assumed.    *)
(* A float is a fixed-point integer counting units of 10^-CasasDecimais.   *)
(* A DataFrame is the sequence of its rows, each row a record.             *)
(***************************************************************************)
EXTENDS Integers, Sequences, FiniteSets, TLC

VARIABLES
    \* the session (main and get_data_for_region)
    banco,                \* what the remote service holds
    cached_data,          \* st.session_state.cached_data
    pc,                   \* where the script run is
    rm_atual,             \* rm_selecionada / rm_id of the run
    passo,                \* the category query the run is at, 1..11
    location_data,        \* the dict get_data_for_region is building
    df_nao_casados_total,
    retorno,              \* what get_data_for_region returned last
    texto_razao,          \* the ratio annotation of the last chart
    restantes,            \* script runs the session still has
    orcamento,            \* regional requests that may still fail
    enviados,             \* history: how often each request was issued
    ultimo,               \* history: the outcome of the run's last query function
    historia,             \* history: where each region's category data came from
    retornos,             \* history: the lists returned, each with its origin
    do_fallback,          \* history: the frames made of national data
    requisicoes,          \* history: the requests of the run, in the order issued
    downloads,            \* the CSV files the page offers, by series
    \* processar_dados on its own
    n_pc, n_data, n_i, anos_valores, n_origem, n_df,
    \* the aggregation loop on its own
    a_k, a_total, a_grupos,
    \* the ratio annotation on its own
    r_casados, r_nao_casados, r_texto, r_pc

varsSessao == <<banco, cached_data, pc, rm_atual, passo, location_data,
                df_nao_casados_total, retorno, texto_razao, restantes, orcamento,
                enviados, ultimo, historia, retornos, do_fallback, requisicoes,
                downloads>>
varsNorm == <<n_pc, n_data, n_i, anos_valores, n_origem, n_df>>
varsAgg == <<a_k, a_total, a_grupos>>
varsRazao == <<r_casados, r_nao_casados, r_texto, r_pc>>
vars == <<varsSessao, varsNorm, varsAgg, varsRazao>>

\* ------------------------------------------------------------------ bounds
\* Fractional digits kept by the fixed-point representation of a float.
CasasDecimais == 1
\* Longest raw record list given to processar_dados on its own.
MaxItens == 2
\* Most rows of a frame given to the ratio annotation on its own.
MaxLinhas == 2
\* Metropolitan regions offered by the selector (of the 20 of the program).
NumRegioes == 2
\* Script runs (region selections) of one session.
MaxChamadas == 2
\* Category queries of one session whose regional request fails.
MaxFalhas == 1

\* ----------------------------------------------------------------- strings
DigitChars == <<"0", "1", "2", "3", "4", "5", "6", "7", "8", "9">>

IsDigit(c) == \E d \in 1..10 : DigitChars[d] = c

DigitVal(c) == (CHOOSE d \in 1..10 : DigitChars[d] = c) - 1

RECURSIVE Pow10(_)
Pow10(n) == IF n = 0 THEN 1 ELSE 10 * Pow10(n - 1)

\* str(n) of a non-negative int
RECURSIVE Str(_)
Str(n) == IF n < 10 THEN <<DigitChars[n + 1]>>
          ELSE Str(n \div 10) \o <<DigitChars[(n % 10) + 1]>>

\* int(s) of a string of decimal digits
RECURSIVE IntOf(_)
IntOf(s) == IF Len(s) = 0 THEN 0
            ELSE 10 * IntOf(SubSeq(s, 1, Len(s) - 1)) + DigitVal(s[Len(s)])

\* s.replace(',', '.')
ReplaceComma(s) == [i \in 1..Len(s) |-> IF s[i] = "," THEN "." ELSE s[i]]

\* ---------------------------------------------------------------- constants
TABELA_OBITOS == 2683
VARIAVEL_OBITOS == <<"3", "4", "3">>
NATUREZA_OBITO == <<"9", "9", "8", "1", "8">>
ESTADO_CIVIL_CASADO == <<"9", "9", "1", "9", "7">>
ESTADO_CIVIL_NAO_CASADOS ==
    << <<"7", "8", "0", "9", "0">>, <<"7", "8", "0", "9", "2">>,
       <<"7", "8", "0", "9", "3">>, <<"7", "8", "0", "9", "4">>,
       <<"9", "9", "1", "9", "5">>, <<"9", "9", "2", "1", "7">> >>
\* [str(year) for year in range(2003, 2023)]
PERIODOS_OBITOS == [i \in 1..20 |-> Str(2002 + i)]

TABELA_DIVORCIOS == 1695
VARIAVEL_DIVORCIOS == <<"3", "9", "3">>
\* the keys of TEMPO_CASAMENTOS, in insertion order
TEMPO_CASAMENTOS ==
    << <<"8", "0", "7", "4">>, <<"8", "0", "8", "4">>,
       <<"8", "0", "9", "0">>, <<"8", "0", "9", "7">> >>
\* [str(year) for year in range(2009, 2023)]
PERIODOS_DIVORCIOS == [i \in 1..14 |-> Str(2008 + i)]

Range(s) == {s[i] : i \in 1..Len(s)}

\* ------------------------------------------------------------- raw records
\* A raw record (a JSON object) is the sequence of its <<key, value>> pairs,
\* in the order item.items() yields them.
K_D1C == <<"D", "1", "C">>
K_D3C == <<"D", "3", "C">>
K_V == <<"V">>
K_MN == <<"M", "N">>

None == <<"None">>

HasKey(item, key) == \E i \in 1..Len(item) : item[i][1] = key

\* item.get(key, default)
ItemGet(item, key, default) ==
    IF HasKey(item, key)
    THEN item[CHOOSE i \in 1..Len(item) : item[i][1] = key][2]
    ELSE default

\* key.startswith('D')
StartsWithD(key) == Len(key) >= 1 /\ key[1] = "D"

\* the scan of lines 166-170: the first field, in item order, whose key starts
\* with 'D' and whose value is in PERIODOS_OBITOS + PERIODOS_DIVORCIOS
PERIODOS_ACEITOS == Range(PERIODOS_OBITOS \o PERIODOS_DIVORCIOS)

IsAnoField(item, i) ==
    /\ StartsWithD(item[i][1])
    /\ item[i][2] \in PERIODOS_ACEITOS

FindAno(item) ==
    IF \E i \in 1..Len(item) : IsAnoField(item, i)
    THEN item[CHOOSE i \in 1..Len(item) :
                 /\ IsAnoField(item, i)
                 /\ \A j \in 1..(i - 1) : ~IsAnoField(item, j)][2]
    ELSE None

\* the list of line 179
SENTINELAS == {<<"-">>, <<"X">>, <<".", ".">>, <<".", ".", ".">>}

IsSentinela(valor_str) == valor_str \in SENTINELAS

\* float(s) for s over digits, '.', '+', '-' and letters: an optional sign, then
\* digits with at most one '.', at least one digit. Anything else is ValueError.
Unsigned(s) == IF Len(s) >= 1 /\ s[1] \in {"+", "-"} THEN SubSeq(s, 2, Len(s)) ELSE s

FloatOk(s) ==
    LET u == Unsigned(s) IN
    /\ \A i \in 1..Len(u) : IsDigit(u[i]) \/ u[i] = "."
    /\ Cardinality({i \in 1..Len(u) : u[i] = "."}) <= 1
    /\ \E i \in 1..Len(u) : IsDigit(u[i])

\* the fixed-point value of float(s), FloatOk(s) given
FloatOf(s) ==
    LET u == Unsigned(s)
        dot == IF \E i \in 1..Len(u) : u[i] = "."
               THEN CHOOSE i \in 1..Len(u) : u[i] = "."
               ELSE Len(u) + 1
        int == SubSeq(u, 1, dot - 1)
        frac == SubSeq(u, dot + 1, Len(u))
        kept == [i \in 1..CasasDecimais |-> IF i <= Len(frac) THEN frac[i] ELSE "0"]
        mag == IntOf(int) * Pow10(CasasDecimais) + IntOf(kept)
    IN IF Len(s) >= 1 /\ s[1] = "-" THEN 0 - mag ELSE mag

\* One iteration of the loop of lines 163-193: the rows (none or one) that one
\* raw record adds to anos_valores.
ProcessarItemSentinelaZero(item) ==
    LET ano == FindAno(item)
        valor_str == ItemGet(item, K_V, <<"0">>)
        unidade == ItemGet(item, K_MN, << >>)
    IN IF ano = None THEN << >>
       ELSE IF IsSentinela(valor_str)
            THEN << [Ano |-> ano, Valor |-> 0, Unidade |-> unidade] >>
       ELSE IF ~FloatOk(ReplaceComma(valor_str)) THEN << >>
       ELSE << [Ano |-> ano, Valor |-> FloatOf(ReplaceComma(valor_str)),
                Unidade |-> unidade] >>

ProcessarItem(item) ==
    LET ano == FindAno(item)
        valor_str == ItemGet(item, K_V, <<"0">>)
        unidade == ItemGet(item, K_MN, << >>)
    IN IF ano = None THEN << >>
       ELSE IF IsSentinela(valor_str) THEN << >>
       ELSE IF ~FloatOk(ReplaceComma(valor_str)) THEN << >>
       ELSE << [Ano |-> ano, Valor |-> FloatOf(ReplaceComma(valor_str)),
                Unidade |-> unidade] >>

\* processar_dados(data): the DataFrame of the rows, in record order
RECURSIVE processar_dados(_)
processar_dados(data) ==
    IF Len(data) = 0 THEN << >>
    ELSE processar_dados(SubSeq(data, 1, Len(data) - 1))
         \o ProcessarItem(data[Len(data)])


\* ------------------------------------------------------------- DataFrames
\* df.empty
Empty(df) == Len(df) = 0

Anos(df) == {df[i].Ano : i \in 1..Len(df)}

\* Year strings all have four digits, so their lexicographic order (the order
\* sort_values('Ano') and the sorted join keys use) is the order of int(Ano).
RECURSIVE SortAnos(_)
SortAnos(S) ==
    IF S = {} THEN << >>
    ELSE LET m == CHOOSE a \in S : \A b \in S : IntOf(a) <= IntOf(b)
         IN <<m>> \o SortAnos(S \ {m})

RowsOf(df, ano) == SelectSeq(df, LAMBDA r : r.Ano = ano)

RECURSIVE Flatten(_)
Flatten(ss) == IF Len(ss) = 0 THEN << >> ELSE ss[1] \o Flatten(Tail(ss))

\* A cell of a merged frame is << >> when it is NaN and <<x>> when it holds x.
Fillna(cell, other) == IF cell = << >> THEN other ELSE cell

\* pd.merge(left, right, on=['Ano'], how='outer'): the join keys sorted, and for
\* each key every pairing of a left row with a right row, or the row of the
\* one side with NaN for the other side's columns.
MergeAno(left, right, ano) ==
    LET L == RowsOf(left, ano)
        R == RowsOf(right, ano)
    IN IF Len(L) = 0
       THEN [j \in 1..Len(R) |->
                [Ano |-> ano, Valor_x |-> << >>, Unidade_x |-> << >>,
                 Valor_y |-> <<R[j].Valor>>, Unidade_y |-> <<R[j].Unidade>>]]
       ELSE IF Len(R) = 0
       THEN [i \in 1..Len(L) |->
                [Ano |-> ano, Valor_x |-> <<L[i].Valor>>, Unidade_x |-> <<L[i].Unidade>>,
                 Valor_y |-> << >>, Unidade_y |-> << >>]]
       ELSE [n \in 1..(Len(L) * Len(R)) |->
                LET i == ((n - 1) \div Len(R)) + 1
                    j == ((n - 1) % Len(R)) + 1
                IN [Ano |-> ano, Valor_x |-> <<L[i].Valor>>, Unidade_x |-> <<L[i].Unidade>>,
                    Valor_y |-> <<R[j].Valor>>, Unidade_y |-> <<R[j].Unidade>>]]

MergeOuter(left, right) ==
    LET keys == SortAnos(Anos(left) \cup Anos(right))
    IN Flatten([k \in 1..Len(keys) |-> MergeAno(left, right, keys[k])])

\* lines 550-553: the merged total of the composite and one more group
SomarGrupo(total, grupo) ==
    LET m == MergeOuter(total, grupo)
    IN [i \in 1..Len(m) |->
           [Ano |-> m[i].Ano,
            Valor |-> Fillna(m[i].Valor_x, <<0>>)[1] + Fillna(m[i].Valor_y, <<0>>)[1],
            Unidade |-> Fillna(m[i].Unidade_x, m[i].Unidade_y)[1]]]

\* lines 545-553: one iteration of the aggregation, given the group's frame
AcumularGrupo(total, df_grupo) ==
    IF Empty(df_grupo) THEN total
    ELSE IF Empty(total) THEN df_grupo
    ELSE SomarGrupo(total, df_grupo)


\* ------------------------------------------------------- the remote queries
\* the keys of REGIOES_METROPOLITANAS, in insertion order
REGIOES_METROPOLITANAS ==
    << <<"2", "7", "0", "1">>, <<"1", "3", "0", "1">>, <<"1", "6", "0", "1">>, <<"2", "9", "0", "1">>,
       <<"2", "3", "0", "1">>, <<"3", "2", "0", "1">>, <<"5", "2", "0", "1">>, <<"2", "1", "0", "1">>,
       <<"3", "1", "0", "1">>, <<"5", "1", "0", "1">>, <<"1", "5", "0", "1">>, <<"2", "5", "0", "1">>,
       <<"2", "6", "0", "1">>, <<"4", "1", "0", "1">>, <<"3", "3", "0", "1">>, <<"2", "4", "0", "1">>,
       <<"4", "3", "0", "1">>, <<"4", "2", "0", "1">>, <<"2", "8", "0", "1">>, <<"3", "5", "0", "1">> >>

Regioes == {REGIOES_METROPOLITANAS[i] : i \in 1..NumRegioes}

BRASIL == <<"1">>

\* The request targets of lines 87, 101, 114: the path segments of the URL.
UrlObitos(estado_civil, nivel, id) ==
    [t |-> TABELA_OBITOS, v |-> VARIAVEL_OBITOS, p |-> PERIODOS_OBITOS,
     c |-> << <<"c9832", estado_civil>>, <<"c1836", NATUREZA_OBITO>> >>,
     n |-> nivel, id |-> id]

\* The request targets of lines 130, 144.
UrlDivorcios(tempo_codigo, nivel, id) ==
    [t |-> TABELA_DIVORCIOS, v |-> VARIAVEL_DIVORCIOS, p |-> PERIODOS_DIVORCIOS,
     c |-> << <<"c345", tempo_codigo>> >>,
     n |-> nivel, id |-> id]

\* The same query against the national aggregate.
NacionalDeCasados(url) == UrlObitos(ESTADO_CIVIL_CASADO, "n1", BRASIL)

Nacional(url) == [url EXCEPT !.n = "n1", !.id = BRASIL]

\* What the remote service holds: raw record lists, by geographic level.
UN_PESSOAS == <<"P", "e", "s", "s", "o", "a", "s">>

Registro(ano, v, mn) == << <<K_D3C, ano>>, <<K_V, v>>, <<K_MN, mn>> >>

Cabecalho == << <<K_D3C, <<"A", "n", "o">> >>, <<K_V, <<"V", "a", "l", "o", "r">> >>,
                <<K_MN, <<"U", "n", "i", "d", "a", "d", "e">> >> >>

RESP_DOIS == << Cabecalho, Registro(Str(2020), <<"5">>, UN_PESSOAS),
                Registro(Str(2021), <<"7">>, UN_PESSOAS) >>

RESP_UM == << Cabecalho, Registro(Str(2021), <<"3">>, UN_PESSOAS) >>

RESP_VAZIA == << >>

\* The services considered: the national data equal to the regional, other
\* than the regional, and present where the regional list is empty.
Bancos == { [n7 |-> RESP_DOIS, n1 |-> RESP_DOIS],
            [n7 |-> RESP_DOIS, n1 |-> RESP_UM],
            [n7 |-> RESP_VAZIA, n1 |-> RESP_UM] }

\* response.json() of a request that succeeds
Servico(b, url) == IF url.n = "n7" THEN b.n7 ELSE b.n1

\* what a query function returns when every request it made failed (lines 107,
\* 123, 150)
SemDadosAntigos == RESP_UM

SemDados == << >>

\* The try/except of lines 91-107 and 134-150, as the set of its outcomes: the
\* requests issued in order, which of them failed, the list returned, and
\* where that list came from. The regional request may fail when orc >= 1.
ComFallback(url, b, orc) ==
    { [urls |-> <<url>>, falhou |-> <<FALSE>>, ret |-> Servico(b, url),
       origem |-> "primaria"] }
    \cup (IF orc >= 1
          THEN { [urls |-> <<url, Nacional(url)>>, falhou |-> <<TRUE, FALSE>>,
                  ret |-> Servico(b, Nacional(url)), origem |-> "fallback"],
                 [urls |-> <<url, Nacional(url)>>, falhou |-> <<TRUE, TRUE>>,
                  ret |-> SemDados, origem |-> "nenhuma"] }
          ELSE {})

\* The try/except of lines 116-123.
SemFallback(url, b, orc) ==
    { [urls |-> <<url>>, falhou |-> <<FALSE>>, ret |-> Servico(b, url),
       origem |-> "primaria"] }
    \cup (IF orc >= 1
          THEN { [urls |-> <<url>>, falhou |-> <<TRUE>>, ret |-> SemDados,
                  origem |-> "nenhuma"] }
          ELSE {})

consultar_obitos_casados(rm_id, b, orc) ==
    ComFallback(UrlObitos(ESTADO_CIVIL_CASADO, "n7", rm_id), b, orc)

consultar_obitos_nao_casados(rm_id, estado_civil_codigo, b, orc) ==
    SemFallback(UrlObitos(estado_civil_codigo, "n7", rm_id), b, orc)

consultar_divorcios(rm_id, tempo_codigo, b, orc) ==
    ComFallback(UrlDivorcios(tempo_codigo, "n7", rm_id), b, orc)

\* the keys of location_data
K_OBITOS_CASADOS == <<"o", "b", "i", "t", "o", "s", "_", "c", "a", "s", "a", "d", "o", "s">>
K_OBITOS_NAO_CASADOS == <<"o", "b", "i", "t", "o", "s", "_", "n", "a", "o", "_", "c", "a", "s", "a", "d", "o", "s">>
\* f'divorcios_{tempo_codigo}'
ChaveDivorcios(tempo_codigo) == <<"d", "i", "v", "o", "r", "c", "i", "o", "s", "_">> \o tempo_codigo


\* ------------------------------------------------------------ the charts
\* df['Ano_Num'] = df['Ano'].astype(int), done in place when len(df) > 1
\* (lines 327-329)
ComAnoNum(df) ==
    IF Len(df) > 1
    THEN [i \in 1..Len(df) |->
             [Ano |-> df[i].Ano, Valor |-> df[i].Valor, Unidade |-> df[i].Unidade,
              Ano_Num |-> IntOf(df[i].Ano)]]
    ELSE df

\* df.sort_values('Ano').iloc[-1]: a row of the greatest year. The sort is not
\* stable, so among several rows of that year any one may come last.
UltimasLinhasPrimeira(df) == {df[1]}

UltimasLinhas(df) ==
    {df[i] : i \in {j \in 1..Len(df) :
                        \A m \in 1..Len(df) : IntOf(df[m].Ano) <= IntOf(df[j].Ano)}}

\* lines 346-355: the annotations the chart may carry, << >> for none and
\* <<[Ano, num, den]>> for the ratio num/den of that year
RazaoUltimoAno(df_casados, df_nao_casados) ==
    IF Empty(df_casados) \/ Empty(df_nao_casados) THEN { << >> }
    ELSE { IF a.Ano = b.Ano /\ a.Valor > 0
           THEN << [Ano |-> a.Ano, num |-> b.Valor, den |-> a.Valor] >>
           ELSE << >> :
           a \in UltimasLinhas(df_casados), b \in UltimasLinhas(df_nao_casados) }

\* data.get(key, pd.DataFrame())
DataGet(data, key) == IF key \in DOMAIN data THEN data[key] ELSE << >>

\* lines 326-340: what criar_grafico_obitos leaves in the two frames it is given
GraficoObitosFrames(data) ==
    IF Empty(DataGet(data, K_OBITOS_CASADOS)) /\ Empty(DataGet(data, K_OBITOS_NAO_CASADOS))
    THEN data
    ELSE [key \in DOMAIN data |->
             IF key \in {K_OBITOS_CASADOS, K_OBITOS_NAO_CASADOS}
             THEN ComAnoNum(data[key]) ELSE data[key]]

\* ------------------------------------------------------------ the downloads
\* the columns of a non-empty frame, in the order they were added
Colunas(df) ==
    IF "Ano_Num" \in DOMAIN df[1]
    THEN <<"Ano", "Valor", "Unidade", "Ano_Num">>
    ELSE <<"Ano", "Valor", "Unidade">>

\* df.to_csv(index=False), lines 693-694: the header line of the column names,
\* then one line per row, in the order of the frame, of the cells of the row
convert_df_to_csv(df) ==
    [cabecalho |-> Colunas(df),
     linhas |-> [i \in 1..Len(df) |->
                    [j \in 1..Len(Colunas(df)) |-> df[i][Colunas(df)[j]]]]]

\* lines 699-747: a download for each series of data that is not empty
Downloads(data) ==
    [key \in {x \in DOMAIN data : ~Empty(data[x])} |-> convert_df_to_csv(data[key])]

\* ------------------------------------------------------------ the session
\* rm_id in st.session_state.cached_data (line 522)
NuncaEmCache(rm_id, cache) == FALSE

EmCache(rm_id, cache) == rm_id \in DOMAIN cache

\* the key of the cache write of line 570
ChaveCacheNacional(rm_id) == BRASIL

ChaveCache(rm_id) == rm_id

Inc(env, url) ==
    IF url \in DOMAIN env THEN [env EXCEPT ![url] = @ + 1] ELSE (url :> 1) @@ env

RECURSIVE IncAll(_, _)
IncAll(env, urls) ==
    IF Len(urls) = 0 THEN env ELSE IncAll(Inc(env, urls[1]), Tail(urls))

Put(d, key, value) == [x \in DOMAIN d \cup {key} |-> IF x = key THEN value ELSE d[x]]

Vazio == [x \in {} |-> << >>]

InitNormFora ==
    /\ n_pc = "fora" /\ n_data = << >> /\ n_i = 0 /\ anos_valores = << >>
    /\ n_origem = << >> /\ n_df = << >>

InitAggFora == a_k = 0 /\ a_total = << >> /\ a_grupos = << >>

InitRazaoFora ==
    r_casados = << >> /\ r_nao_casados = << >> /\ r_texto = << >> /\ r_pc = "fora"

InitSessaoFora == banco = [n7 |-> RESP_VAZIA, n1 |-> RESP_VAZIA] /\ restantes = 0 /\ orcamento = 0

InitOutros == InitNormFora /\ InitAggFora /\ InitRazaoFora

InitSessao ==
    /\ cached_data = Vazio
    /\ pc = "idle"
    /\ rm_atual = None
    /\ passo = 0
    /\ location_data = Vazio
    /\ df_nao_casados_total = << >>
    /\ retorno = << >>
    /\ texto_razao = << >>
    /\ enviados = Vazio
    /\ ultimo = << >>
    /\ historia = {}
    /\ retornos = {}
    /\ do_fallback = {}
    /\ requisicoes = << >>
    /\ downloads = Vazio

Init ==
    /\ banco \in Bancos
    /\ restantes = MaxChamadas
    /\ orcamento = MaxFalhas
    /\ InitSessao
    /\ InitOutros

\* One script run in which any of the eleven regional requests may fail.
InitBusca ==
    /\ banco = [n7 |-> RESP_DOIS, n1 |-> RESP_UM]
    /\ restantes = 1
    /\ orcamento = Len(ESTADO_CIVIL_NAO_CASADOS) + Len(TEMPO_CASAMENTOS) + 1
    /\ InitSessao
    /\ InitOutros

\* main, lines 612-626, into get_data_for_region, lines 522-524: the region is
\* in the cache and its entry is returned
UsarCache(rm) ==
    /\ pc = "idle"
    /\ restantes > 0
    /\ EmCache(rm, cached_data)
    /\ restantes' = restantes - 1
    /\ rm_atual' = rm
    /\ retorno' = << [hit |-> TRUE, rm |-> rm, data |-> cached_data[rm]] >>
    /\ downloads' = Vazio
    /\ pc' = "render"
    /\ UNCHANGED <<banco, cached_data, passo, location_data, df_nao_casados_total,
                   texto_razao, orcamento, enviados, ultimo, historia, retornos,
                   do_fallback, requisicoes>>
    /\ UNCHANGED <<varsNorm, varsAgg, varsRazao>>

\* main, lines 612-626, into get_data_for_region, lines 522-527: a miss
Buscar(rm) ==
    /\ pc = "idle"
    /\ restantes > 0
    /\ ~EmCache(rm, cached_data)
    /\ restantes' = restantes - 1
    /\ rm_atual' = rm
    /\ location_data' = Vazio
    /\ df_nao_casados_total' = << >>
    /\ passo' = 1
    /\ requisicoes' = << >>
    /\ downloads' = Vazio
    /\ pc' = "fetch"
    /\ UNCHANGED <<banco, cached_data, retorno, texto_razao, orcamento, enviados,
                   ultimo, historia, retornos, do_fallback>>
    /\ UNCHANGED <<varsNorm, varsAgg, varsRazao>>

\* the bookkeeping every category query shares; key is the key of
\* location_data that holds the frame made of the list returned, when one does
Registrar(o, key) ==
    /\ orcamento' = IF o.falhou[1] THEN orcamento - 1 ELSE orcamento
    /\ enviados' = IncAll(enviados, o.urls)
    /\ requisicoes' = requisicoes \o [i \in 1..Len(o.urls) |->
                                         [url |-> o.urls[i], falhou |-> o.falhou[i]]]
    /\ ultimo' = << o >>
    /\ historia' = historia \cup {[rm |-> rm_atual, passo |-> passo, origem |-> o.origem]}
    /\ retornos' = retornos \cup {[ret |-> o.ret, fallback |-> (o.origem = "fallback")]}
    /\ do_fallback' = IF o.origem = "fallback"
                      THEN do_fallback \cup
                           {[rm |-> rm_atual, key |-> key, df |-> processar_dados(o.ret)]}
                      ELSE do_fallback

\* lines 529-535
BuscarCasados ==
    /\ pc = "fetch" /\ passo = 1
    /\ \E o \in consultar_obitos_casados(rm_atual, banco, orcamento) :
          /\ location_data' = Put(location_data, K_OBITOS_CASADOS, processar_dados(o.ret))
          /\ Registrar(o, K_OBITOS_CASADOS)
    /\ passo' = passo + 1
    /\ UNCHANGED <<banco, cached_data, pc, rm_atual, df_nao_casados_total, retorno,
                   texto_razao, restantes, downloads>>
    /\ UNCHANGED <<varsNorm, varsAgg, varsRazao>>

\* lines 540-558: one iteration of the loop, and after the last one line 558
BuscarNaoCasados ==
    /\ pc = "fetch" /\ passo \in 2..7
    /\ \E o \in consultar_obitos_nao_casados(rm_atual, ESTADO_CIVIL_NAO_CASADOS[passo - 1],
                                             banco, orcamento) :
          \E df_grupo \in {processar_dados(o.ret)} :
          \E total \in {AcumularGrupo(df_nao_casados_total, df_grupo)} :
          /\ df_nao_casados_total' = total
          /\ location_data' = IF passo = 7
                              THEN Put(location_data, K_OBITOS_NAO_CASADOS, total)
                              ELSE location_data
          /\ Registrar(o, K_OBITOS_NAO_CASADOS)
    /\ passo' = passo + 1
    /\ UNCHANGED <<banco, cached_data, pc, rm_atual, retorno, texto_razao, restantes,
                   downloads>>
    /\ UNCHANGED <<varsNorm, varsAgg, varsRazao>>

\* lines 561-567: one iteration of the loop
BuscarDivorcios ==
    /\ pc = "fetch" /\ passo \in 8..11
    /\ \E o \in consultar_divorcios(rm_atual, TEMPO_CASAMENTOS[passo - 7], banco,
                                    orcamento) :
          /\ location_data' = Put(location_data, ChaveDivorcios(TEMPO_CASAMENTOS[passo - 7]),
                                  processar_dados(o.ret))
          /\ Registrar(o, ChaveDivorcios(TEMPO_CASAMENTOS[passo - 7]))
    /\ passo' = passo + 1
    /\ pc' = IF passo = 11 THEN "cache" ELSE "fetch"
    /\ UNCHANGED <<banco, cached_data, rm_atual, df_nao_casados_total, retorno,
                   texto_razao, restantes, downloads>>
    /\ UNCHANGED <<varsNorm, varsAgg, varsRazao>>

\* lines 569-573
Cachear ==
    /\ pc = "cache"
    /\ cached_data' = Put(cached_data, ChaveCache(rm_atual), location_data)
    /\ retorno' = << [hit |-> FALSE, rm |-> rm_atual, data |-> location_data] >>
    /\ pc' = "render"
    /\ UNCHANGED <<banco, rm_atual, passo, location_data, df_nao_casados_total,
                   texto_razao, restantes, orcamento, enviados, ultimo, historia, retornos,
                   do_fallback, requisicoes, downloads>>
    /\ UNCHANGED <<varsNorm, varsAgg, varsRazao>>

\* main, lines 628-749: the charts of the returned data, then the tables and
\* the CSV downloads, which ends the script run and with it the run's locals.
\* The dict returned is the object the cache holds, so what
\* criar_grafico_obitos writes into its frames is written into the cache
\* entry, and is in the frames by the time the downloads are made.
Renderizar ==
    /\ pc = "render"
    /\ LET data == retorno[1].data IN
       /\ texto_razao' \in RazaoUltimoAno(DataGet(data, K_OBITOS_CASADOS),
                                          DataGet(data, K_OBITOS_NAO_CASADOS))
       /\ cached_data' = [key \in DOMAIN cached_data |->
                             IF key = ChaveCache(rm_atual)
                             THEN GraficoObitosFrames(data) ELSE cached_data[key]]
       /\ downloads' = Downloads(GraficoObitosFrames(data))
    /\ pc' = "idle"
    /\ rm_atual' = None
    /\ passo' = 0
    /\ location_data' = Vazio
    /\ df_nao_casados_total' = << >>
    /\ retorno' = << >>
    /\ ultimo' = << >>
    /\ requisicoes' = << >>
    /\ UNCHANGED <<banco, restantes, orcamento, enviados, historia, retornos, do_fallback>>
    /\ UNCHANGED <<varsNorm, varsAgg, varsRazao>>

Next ==
    \/ \E rm \in Regioes : UsarCache(rm)
    \/ \E rm \in Regioes : Buscar(rm)
    \/ BuscarCasados
    \/ BuscarNaoCasados
    \/ BuscarDivorcios
    \/ Cachear
    \/ Renderizar

Spec == Init /\ [][Next]_vars

\* get_data_for_region on a cold cache, once
NextBusca ==
    \/ \E rm \in Regioes : Buscar(rm)
    \/ BuscarCasados
    \/ BuscarNaoCasados
    \/ BuscarDivorcios
    \/ Cachear
    \/ Renderizar

SpecBusca == InitBusca /\ [][NextBusca]_vars

\* One script run on a cold cache in which the regional requests of up to
\* MaxFalhas + 1 category queries fail, every step of the run being taken in
\* the end: the script is sequential, and a request either returns or raises.
InitBuscaJusta ==
    /\ banco = [n7 |-> RESP_UM, n1 |-> RESP_UM]
    /\ restantes = 1
    /\ orcamento = MaxFalhas + 1
    /\ InitSessao
    /\ InitOutros

SpecBuscaJusta == InitBuscaJusta /\ [][NextBusca]_vars /\ WF_vars(NextBusca)

\* A session in which no request fails, over more of what the service may
\* answer: the records in descending year order, and a record of a year of
\* PERIODOS_OBITOS that is not in PERIODOS_DIVORCIOS.
RESP_INVERTIDA == << Cabecalho, Registro(Str(2021), <<"7">>, UN_PESSOAS),
                     Registro(Str(2020), <<"5">>, UN_PESSOAS) >>

RESP_ANO_2005 == << Cabecalho, Registro(Str(2005), <<"4">>, UN_PESSOAS),
                    Registro(Str(2020), <<"5">>, UN_PESSOAS) >>

BancosRespostas ==
    { [n7 |-> r, n1 |-> RESP_UM] :
         r \in {RESP_DOIS, RESP_INVERTIDA, RESP_ANO_2005, RESP_UM, RESP_VAZIA} }

InitRespostas ==
    /\ banco \in BancosRespostas
    /\ restantes = MaxChamadas
    /\ orcamento = 0
    /\ InitSessao
    /\ InitOutros

SpecRespostas == InitRespostas /\ [][Next]_vars


\* ------------------------------------------------ processar_dados on its own
\* The raw records considered: a territory field, then a year of both period
\* lists, a year of the deaths list only, or no year field; the value a
\* sentinel, a number with either decimal separator, a lower-case letter, or
\* absent; the unit present or absent.
AnosBrutos == {<<Str(2020)>>, <<Str(2005)>>, << >>}
ValoresBrutos == {<< <<"-">> >>, << <<"X">> >>, << <<".", ".">> >>, << <<".", ".", ".">> >>,
                  << <<"5">> >>, << <<"2", ",", "5">> >>, << <<"x">> >>, << >>}
UnidadesBrutas == {<<UN_PESSOAS>>, << >>}

ItemBruto(a, v, m) ==
    << <<K_D1C, BRASIL>> >>
    \o (IF a = << >> THEN << >> ELSE << <<K_D3C, a[1]>> >>)
    \o (IF v = << >> THEN << >> ELSE << <<K_V, v[1]>> >>)
    \o (IF m = << >> THEN << >> ELSE << <<K_MN, m[1]>> >>)

ItensBrutos == {ItemBruto(a, v, m) : a \in AnosBrutos, v \in ValoresBrutos, m \in UnidadesBrutas}

ListasBrutas == UNION {[1..n -> ItensBrutos] : n \in 0..MaxItens}

InitNorm ==
    /\ n_pc = "inicio"
    /\ n_data \in ListasBrutas
    /\ n_i = 1
    /\ anos_valores = << >>
    /\ n_origem = << >>
    /\ n_df = << >>
    /\ InitSessaoFora /\ InitSessao /\ InitAggFora /\ InitRazaoFora

\* lines 156-158
NormSemDados ==
    /\ n_pc = "inicio"
    /\ Len(n_data) = 0
    /\ n_df' = << >>
    /\ n_pc' = "fim"
    /\ UNCHANGED <<n_data, n_i, anos_valores, n_origem>>
    /\ UNCHANGED <<varsSessao, varsAgg, varsRazao>>

\* lines 163-193: one iteration; n_origem records which record made each row
NormItem ==
    /\ n_pc \in {"inicio", "laco"}
    /\ n_i <= Len(n_data)
    /\ LET novas == ProcessarItem(n_data[n_i]) IN
       /\ anos_valores' = anos_valores \o novas
       /\ n_origem' = n_origem \o [j \in 1..Len(novas) |-> n_i]
    /\ n_i' = n_i + 1
    /\ n_pc' = "laco"
    /\ UNCHANGED <<n_data, n_df>>
    /\ UNCHANGED <<varsSessao, varsAgg, varsRazao>>

\* lines 195-203
NormRetornar ==
    /\ n_pc = "laco"
    /\ n_i > Len(n_data)
    /\ n_df' = anos_valores
    /\ n_pc' = "fim"
    /\ UNCHANGED <<n_data, n_i, anos_valores, n_origem>>
    /\ UNCHANGED <<varsSessao, varsAgg, varsRazao>>

NextNorm == NormSemDados \/ NormItem \/ NormRetornar

SpecNorm == InitNorm /\ [][NextNorm]_vars

\* ------------------------------------------- the aggregation loop on its own
\* The lists the six not-married queries may return.
GRUPO_SEM_UNIDADE == << << <<K_D3C, Str(2020)>>, <<K_V, <<"5">> >> >> >>
GRUPO_DOIS_ANOS == << Registro(Str(2020), <<"3">>, UN_PESSOAS),
                      Registro(Str(2021), <<"7">>, UN_PESSOAS) >>
GRUPO_OUTRA_UNIDADE == << Registro(Str(2021), <<"2">>, <<"M", "i", "l">>) >>
GRUPO_ANO_REPETIDO == << Registro(Str(2020), <<"1">>, UN_PESSOAS),
                         Registro(Str(2020), <<"4">>, UN_PESSOAS) >>

GruposBrutos == {SemDados, GRUPO_SEM_UNIDADE, GRUPO_DOIS_ANOS, GRUPO_OUTRA_UNIDADE,
                 GRUPO_ANO_REPETIDO}

InitAgg ==
    /\ a_k = 1
    /\ a_total = << >>
    /\ a_grupos = << >>
    /\ InitSessaoFora /\ InitSessao /\ InitNormFora /\ InitRazaoFora

\* lines 540-556: one iteration, the list returned by the query given;
\* a_grupos records the frames of the groups so far
AggGrupo ==
    /\ a_k \in 1..Len(ESTADO_CIVIL_NAO_CASADOS)
    /\ \E data_grupo \in GruposBrutos :
          LET df_grupo == processar_dados(data_grupo) IN
          /\ a_total' = AcumularGrupo(a_total, df_grupo)
          /\ a_grupos' = Append(a_grupos, df_grupo)
    /\ a_k' = a_k + 1
    /\ UNCHANGED <<varsSessao, varsNorm, varsRazao>>

NextAgg == AggGrupo

SpecAgg == InitAgg /\ [][NextAgg]_vars

\* ------------------------------------------ the ratio annotation on its own
\* The frames considered: up to MaxLinhas rows, in any order, of three years
\* and of the values 0 and 4.
LinhasRazao == {[Ano |-> Str(a), Valor |-> v * Pow10(CasasDecimais), Unidade |-> UN_PESSOAS] :
                   a \in 2019..2021, v \in {0, 4}}

FramesRazao == UNION {[1..n -> LinhasRazao] : n \in 0..MaxLinhas}

InitRazao ==
    /\ r_casados \in FramesRazao
    /\ r_nao_casados \in FramesRazao
    /\ r_texto = << >>
    /\ r_pc = "inicio"
    /\ InitSessaoFora /\ InitSessao /\ InitNormFora /\ InitAggFora

\* criar_grafico_obitos, lines 345-355
Anotar ==
    /\ r_pc = "inicio"
    /\ r_texto' \in RazaoUltimoAno(r_casados, r_nao_casados)
    /\ r_pc' = "fim"
    /\ UNCHANGED <<r_casados, r_nao_casados>>
    /\ UNCHANGED <<varsSessao, varsNorm, varsAgg>>

NextRazao == Anotar

SpecRazao == InitRazao /\ [][NextRazao]_vars


\* ------------------------------------------------- the claims, the session
\* the columns a frame is built with, without the Ano_Num the chart adds
TresColunas(df) ==
    [i \in 1..Len(df) |-> [Ano |-> df[i].Ano, Valor |-> df[i].Valor, Unidade |-> df[i].Unidade]]

\* the key of location_data that the query of a step feeds
ChaveDoPasso(j) ==
    IF j = 1 THEN K_OBITOS_CASADOS
    ELSE IF j <= 7 THEN K_OBITOS_NAO_CASADOS
    ELSE ChaveDivorcios(TEMPO_CASAMENTOS[j - 7])

\* the frame of the list the service gave the query of a history entry
FrameDe(h) ==
    IF h.origem = "primaria" THEN processar_dados(banco.n7)
    ELSE IF h.origem = "fallback" THEN processar_dados(banco.n1)
    ELSE << >>

EmRenderDeCache == pc = "render" /\ retorno[1].hit

\* C1: a second get_data_for_region for a region issues no request and returns
\* what the first stored: no regional request is ever issued twice in a
\* session, and a run served from the cache returns, for married deaths and
\* for every divorce duration, the rows the first run obtained.
C1_UmaRequisicaoPorConsulta ==
    /\ \A url \in DOMAIN enviados : url.n = "n7" => enviados[url] = 1
    /\ EmRenderDeCache =>
          \A h \in historia :
             (h.rm = retorno[1].rm /\ h.passo \notin 2..7) =>
                TresColunas(retorno[1].data[ChaveDoPasso(h.passo)]) = FrameDe(h)

C1_Witness ==
    /\ EmRenderDeCache
    /\ ~Empty(retorno[1].data[K_OBITOS_CASADOS])
    /\ Cardinality({h \in historia : h.rm = retorno[1].rm}) = 11

\* C2: a failed category query leaves no cache entry behind, so that a later
\* run for the region asks the service again: no region with a failed query is
\* in the cache, and no run is served from the cache for such a region.
C2_FalhaNaoCacheada ==
    \A h \in historia :
       h.origem = "nenhuma" =>
          /\ (h.rm # rm_atual \/ pc = "render") => ~EmCache(h.rm, cached_data)
          /\ ~(EmRenderDeCache /\ retorno[1].rm = h.rm)

\* C3: whenever the regional request of a category query fails, exactly one
\* more request follows, the same query against n1/1.
C3_FallbackEmTodaConsulta ==
    (ultimo # << >> /\ ultimo[1].falhou[1]) =>
       /\ Len(ultimo[1].urls) = 2
       /\ ultimo[1].urls[2] = [ultimo[1].urls[1] EXCEPT !.n = "n1", !.id = <<"1">>]

\* C4: data obtained from the national fallback are cached under the key of
\* the region asked for and never under a national key, and a later run for
\* the region returns them from the cache with no further request.
C4_FallbackSobChaveRegional ==
    /\ DOMAIN cached_data \subseteq Regioes
    /\ \A e \in do_fallback :
          /\ (e.rm # rm_atual \/ pc = "render") => e.rm \in DOMAIN cached_data
          /\ e.rm \in DOMAIN cached_data =>
                TresColunas(cached_data[e.rm][e.key]) = e.df
          /\ (EmRenderDeCache /\ retorno[1].rm = e.rm) =>
                /\ TresColunas(retorno[1].data[e.key]) = e.df
                /\ \A url \in DOMAIN enviados : url.id = e.rm => enviados[url] = 1

C4_Witness ==
    /\ EmRenderDeCache
    /\ \E e \in do_fallback : e.rm = retorno[1].rm /\ ~Empty(e.df)

\* C5: what a query function returns tells national fallback data from
\* regional data: no two returned values are equal when one came from the
\* fallback request and the other did not.
C5_OrigemDistinguivel ==
    \A x \in retornos : \A y \in retornos : x.ret = y.ret => x.fallback = y.fallback

\* what the query function of a step may do now
ResultadosDoPasso(j) ==
    IF j = 1 THEN consultar_obitos_casados(rm_atual, banco, orcamento)
    ELSE IF j <= 7
    THEN consultar_obitos_nao_casados(rm_atual, ESTADO_CIVIL_NAO_CASADOS[j - 1], banco, orcamento)
    ELSE consultar_divorcios(rm_atual, TEMPO_CASAMENTOS[j - 7], banco, orcamento)

\* C6: a query whose requests all fail returns the empty list, nothing is
\* raised, the remaining queries are still made, and the result holds an empty
\* series for the failed category, whatever the set of failing categories.
FalhouPasso(j) == \E h \in historia : h.rm = rm_atual /\ h.passo = j /\ h.origem = "nenhuma"

Sucessos == Cardinality({j \in 2..7 : ~FalhouPasso(j)})

C6_FalhaNaoFatal ==
    /\ (ultimo # << >> /\ ultimo[1].origem = "nenhuma") => ultimo[1].ret = << >>
    /\ pc = "fetch" => {h.passo : h \in {x \in historia : x.rm = rm_atual}} = 1..(passo - 1)
    /\ pc = "fetch" => ResultadosDoPasso(passo) # {}
    /\ pc \in {"cache", "render"} =>
          /\ {h.passo : h \in {x \in historia : x.rm = rm_atual}} = 1..11
          /\ DOMAIN location_data =
                {K_OBITOS_CASADOS, K_OBITOS_NAO_CASADOS}
                \cup {ChaveDivorcios(TEMPO_CASAMENTOS[i]) : i \in 1..4}
          /\ \A j \in {1} \cup 8..11 :
                FalhouPasso(j) => Empty(location_data[ChaveDoPasso(j)])
          /\ Sucessos = 0 => Empty(location_data[K_OBITOS_NAO_CASADOS])
          /\ Sucessos > 0 =>
                LET df == location_data[K_OBITOS_NAO_CASADOS] IN
                /\ Len(df) = 2
                /\ df[1].Valor = Sucessos * 5 * Pow10(CasasDecimais)
                /\ df[2].Valor = Sucessos * 7 * Pow10(CasasDecimais)
    /\ pc = "render" => retorno[1].data = location_data

C6_Witness ==
    /\ pc = "render"
    /\ FalhouPasso(1) /\ FalhouPasso(9) /\ ~FalhouPasso(11)
    /\ Sucessos = 0
    /\ ~Empty(retorno[1].data[ChaveDoPasso(11)])

\* C11: the cache contents change only in the cache write that ends the fetch
\* of get_data_for_region; no other step, the charts in particular, changes a
\* row or a column of a cached series.
C11_CacheSoMudaNaEscrita ==
    [][cached_data' # cached_data => pc = "cache"]_vars

\* the lines of a CSV are in ascending order of their first cell, the year
EmOrdemDeAno(csv) ==
    \A i \in 1..Len(csv.linhas) : \A j \in 1..Len(csv.linhas) :
       i < j => IntOf(csv.linhas[i][1]) <= IntOf(csv.linhas[j][1])

\* C12: every CSV download the page offers has exactly the fields year, value
\* and unit, and its rows in ascending year order, whatever the order of the
\* records the service answered with and whether the run fetched the data or
\* took them from the cache.
C12_CsvTresCamposEmOrdem ==
    \A key \in DOMAIN downloads :
       /\ downloads[key].cabecalho = <<"Ano", "Valor", "Unidade">>
       /\ EmOrdemDeAno(downloads[key])

\* the configured period range of the family a series of location_data is of
PeriodoDaFamilia(key) ==
    IF key \in {K_OBITOS_CASADOS, K_OBITOS_NAO_CASADOS}
    THEN Range(PERIODOS_OBITOS)
    ELSE Range(PERIODOS_DIVORCIOS)

\* C14: every point processar_dados emits for a series has a year of the
\* period range of the family of the series, 2003-2022 for the deaths and
\* 2009-2022 for the divorces; a record with no year of that range is dropped.
C14_AnosDoPeriodoDaFamilia ==
    \A key \in DOMAIN location_data :
       Anos(location_data[key]) \subseteq PeriodoDaFamilia(key)

\* the eleven regional requests of a run for a region, in the order claimed
Primarias(rm) ==
    << UrlObitos(ESTADO_CIVIL_CASADO, "n7", rm) >>
    \o [i \in 1..Len(ESTADO_CIVIL_NAO_CASADOS) |->
           UrlObitos(ESTADO_CIVIL_NAO_CASADOS[i], "n7", rm)]
    \o [i \in 1..Len(TEMPO_CASAMENTOS) |-> UrlDivorcios(TEMPO_CASAMENTOS[i], "n7", rm)]

\* the regional requests among the requests of the run, in the order issued
PrimariasFeitas ==
    LET r == SelectSeq(requisicoes, LAMBDA e : e.url.n = "n7")
    IN [i \in 1..Len(r) |-> r[i].url]

EmBusca == pc \in {"fetch", "cache"} \/ (pc = "render" /\ ~retorno[1].hit)

C15_OrdemFixa ==
    EmBusca =>
       /\ Len(PrimariasFeitas) <= Len(Primarias(rm_atual))
       /\ PrimariasFeitas = SubSeq(Primarias(rm_atual), 1, Len(PrimariasFeitas))
       /\ pc = "fetch" => Len(PrimariasFeitas) = passo - 1
       /\ pc # "fetch" => PrimariasFeitas = Primarias(rm_atual)
       /\ \A i \in 1..Len(requisicoes) :
             requisicoes[i].url.n # "n7" =>
                /\ i > 1
                /\ requisicoes[i - 1].url.n = "n7"
                /\ requisicoes[i - 1].falhou
                /\ requisicoes[i].url =
                      [requisicoes[i - 1].url EXCEPT !.n = "n1", !.id = <<"1">>]
       /\ pc # "render" => ~EmCache(rm_atual, cached_data)
       /\ pc = "render" =>
             /\ EmCache(rm_atual, cached_data)
             /\ cached_data[rm_atual] = retorno[1].data

RECURSIVE SomaValores(_)
SomaValores(df) == IF Len(df) = 0 THEN 0 ELSE df[1].Valor + SomaValores(Tail(df))

RECURSIVE SomaDoAno(_, _)
SomaDoAno(grupos, ano) ==
    IF Len(grupos) = 0 THEN 0
    ELSE SomaValores(RowsOf(grupos[1], ano)) + SomaDoAno(Tail(grupos), ano)

\* a frame holds no year twice
AnosUnicos(df) == \A i \in 1..Len(df) : \A j \in 1..Len(df) : df[i].Ano = df[j].Ano => i = j

AnosDosGrupos == UNION {Anos(a_grupos[i]) : i \in 1..Len(a_grupos)}

\* C7: the composite holds, for every year of some input series, exactly one
\* row, whose value is the sum of the inputs' values for that year, and no row
\* of another year; it is empty when every input is.
C7_UmaLinhaPorAno ==
    /\ Anos(a_total) = AnosDosGrupos
    /\ \A ano \in AnosDosGrupos :
          /\ Len(RowsOf(a_total, ano)) = 1
          /\ RowsOf(a_total, ano)[1].Valor = SomaDoAno(a_grupos, ano)

\* The same of inputs that hold one row per year: the merge itself sums as
\* stated, and C7 fails only through a year repeated inside one input.
C7_ComAnosUnicos ==
    (\A i \in 1..Len(a_grupos) : AnosUnicos(a_grupos[i])) => C7_UmaLinhaPorAno

\* the units the inputs give a year, in input order, the empty ones left out
RECURSIVE UnidadesDoAno(_, _)
UnidadesDoAno(grupos, ano) ==
    IF Len(grupos) = 0 THEN << >>
    ELSE LET r == RowsOf(grupos[1], ano)
         IN SelectSeq([i \in 1..Len(r) |-> r[i].Unidade], LAMBDA u : u # << >>)
            \o UnidadesDoAno(Tail(grupos), ano)

\* C8: the unit of a year of the composite is the first non-empty unit that
\* the inputs, in ESTADO_CIVIL_NAO_CASADOS order, give that year.
C8_PrimeiraUnidadeNaoVazia ==
    \A i \in 1..Len(a_total) :
       LET u == UnidadesDoAno(a_grupos, a_total[i].Ano)
       IN a_total[i].Unidade = IF Len(u) = 0 THEN << >> ELSE u[1]

\* ------------------------------------------- the claims, processar_dados
ValorDe(item) == ItemGet(item, K_V, <<"0">>)

\* C9: no row of the frame comes from a record whose V is '-', 'X', '..' or
\* '...'; such a record yields no number, and the records after it are still
\* processed: every record with a year and a numeric V has its row.
C9_SentinelasDescartadas ==
    /\ Len(n_origem) = Len(anos_valores)
    /\ \A j \in 1..Len(n_origem) :
          ValorDe(n_data[n_origem[j]]) \notin
             {<<"-">>, <<"X">>, <<".", ".">>, <<".", ".", ".">>}
    /\ n_pc = "fim" =>
          /\ n_df = anos_valores
          /\ \A i \in 1..Len(n_data) :
                (HasKey(n_data[i], K_D3C) /\ ValorDe(n_data[i]) \in {<<"5">>, <<"2", ",", "5">>})
                => \E j \in 1..Len(n_origem) :
                      /\ n_origem[j] = i
                      /\ n_df[j].Valor = IF ValorDe(n_data[i]) = <<"5">>
                                         THEN 5 * Pow10(CasasDecimais)
                                         ELSE 25 * Pow10(CasasDecimais - 1)

C9_Witness ==
    /\ n_pc = "fim"
    /\ Len(n_data) = 2
    /\ HasKey(n_data[1], K_D3C) /\ ValorDe(n_data[1]) = <<".", ".">>
    /\ HasKey(n_data[2], K_D3C) /\ ValorDe(n_data[2]) = <<"2", ",", "5">>
    /\ Len(n_df) = 1

\* the raw record lists that hold the records of data in another order
Permutacoes(data) ==
    {[i \in 1..Len(data) |-> data[f[i]]] :
        f \in {g \in [1..Len(data) -> 1..Len(data)] :
                  \A i \in 1..Len(data) : \A j \in 1..Len(data) : g[i] = g[j] => i = j}}

\* C13: the frame processar_dados returns holds at most one row per year, the
\* row of a year being the one of the last record of that year that yields a
\* row, and the set of its rows is the same for every order of the records.
C13_UmPontoPorAno ==
    n_pc = "fim" =>
       /\ AnosUnicos(n_df)
       /\ \A j \in 1..Len(n_df) :
             \A i \in 1..Len(n_data) :
                (ProcessarItem(n_data[i]) # << >> /\ ProcessarItem(n_data[i])[1].Ano = n_df[j].Ano)
                => i <= n_origem[j]
       /\ \A outra \in Permutacoes(n_data) :
             Range(processar_dados(outra)) = Range(n_df)

\* -------------------------------------------- the claims, the annotation
MaiorAno(S) == CHOOSE a \in S : \A b \in S : IntOf(b) <= IntOf(a)

AnosComuns == Anos(r_casados) \cap Anos(r_nao_casados)

\* C10: the annotation is made exactly when the two series share a year and
\* the married value at the latest shared year is > 0, its ratio being
\* not-married over married at that year, also when the series end in
\* different years. (Stated of series with one row per year.)
C10_UltimoAnoComum ==
    (r_pc = "fim" /\ AnosUnicos(r_casados) /\ AnosUnicos(r_nao_casados)) =>
       LET tem == AnosComuns # {} /\ RowsOf(r_casados, MaiorAno(AnosComuns))[1].Valor > 0
       IN /\ (r_texto # << >>) <=> tem
          /\ tem => /\ r_texto[1].Ano = MaiorAno(AnosComuns)
                    /\ r_texto[1].den = RowsOf(r_casados, MaiorAno(AnosComuns))[1].Valor
                    /\ r_texto[1].num = RowsOf(r_nao_casados, MaiorAno(AnosComuns))[1].Valor

\* C10, amended: the annotation is made exactly when both series are non-empty,
\* they end in the same year and the married value of that year is > 0, its
\* ratio being not-married over married at that year; never a division by 0.
C10_UltimoAnoDeCada ==
    r_pc = "fim" =>
       /\ r_texto # << >> =>
             /\ ~Empty(r_casados) /\ ~Empty(r_nao_casados)
             /\ r_texto[1].Ano = MaiorAno(Anos(r_casados))
             /\ r_texto[1].Ano = MaiorAno(Anos(r_nao_casados))
             /\ r_texto[1].den > 0
             /\ r_texto[1].den \in {x.Valor : x \in Range(RowsOf(r_casados, r_texto[1].Ano))}
             /\ r_texto[1].num \in {x.Valor : x \in Range(RowsOf(r_nao_casados, r_texto[1].Ano))}
       /\ r_texto = << >> =>
             \/ Empty(r_casados) \/ Empty(r_nao_casados)
             \/ MaiorAno(Anos(r_casados)) # MaiorAno(Anos(r_nao_casados))
             \/ \E x \in Range(RowsOf(r_casados, MaiorAno(Anos(r_casados)))) : x.Valor <= 0

C10_Witness ==
    /\ r_pc = "fim"
    /\ r_texto # << >>
    /\ Len(r_casados) = 2 /\ AnosUnicos(r_casados)
    /\ r_casados[1].Ano = r_texto[1].Ano
    /\ Len(r_nao_casados) = 2 /\ AnosUnicos(r_nao_casados)

=============================================================================
